---- MODULE Spec2Model ----
(***************************************************************************)
(* fastNLP core: Trainer (core/trainer.py), its pre-flight _check_code and *)
(* Tester (core/tester.py), as one sequential client program.              *)
(*                                                                         *)
(* The client may build a Tester, may call its test(), and may build a     *)
(* Trainer and call its train().  The model object (an nn.Module) is       *)
(* shared: its mode flag, its accumulated gradients and its parameters are *)
(* the variables training, grad and params.                                *)
(***************************************************************************)
EXTENDS Integers, Sequences, FiniteSets, TLC

\* ---------------------------------------------------------------- bounds
MaxRecords == 5        \* records of the training DataSet: 0..MaxRecords
MaxEpochs == 2         \* n_epochs: -1..MaxEpochs
MaxValidateEvery == 2  \* validate_every: -1..MaxValidateEvery
MaxDevRecords == 2     \* records of the DataSet a Tester holds: 0..MaxDevRecords
MaxScore == 2          \* a metric's result: 0..MaxScore

\* ------------------------------------------------------ program constants
DEFAULT_CHECK_BATCH_SIZE == 2
DEFAULT_CHECK_NUM_BATCH == 2

\* ----------------------------------------------------------- input domains
BatchSizes == {3, 5}
Scores == 0..MaxScore
MetricClasses == {"AccuracyMetric", "SpanFMetric"}
\* the lists of metrics handed to a Tester (metric objects, by class name)
MetricLists ==
    { <<>>, <<"AccuracyMetric">>, <<"AccuracyMetric", "SpanFMetric">>,
      <<"AccuracyMetric", "AccuracyMetric">> }
\* the named input fields every batch_x of the DataSets carries
BatchXFields == {"words", "seq_len"}
\* declared parameters of a callable: all of them, and those without default
\* (mask is optional in the first, required in the second; neither declares
\* seq_len)
Signatures ==
    { [params |-> {"words", "mask"}, required |-> {"words"}],
      [params |-> {"words", "mask"}, required |-> {"words", "mask"}] }

NoTester == [made |-> FALSE, err |-> "none"]
NoCall == [site |-> "none"]
NoValidation == [any |-> FALSE]

\* ------------------------------------------------------------- helpers
Min(a, b) == IF a < b THEN a ELSE b

\* Batch(dataset, batch_size, sampler): how many batches one pass yields
NumBatches(n, bs) == (n + bs - 1) \div bs

\* _build_args(func, **x): the subset of x the callable declares, or the
\* required names that x lacks
_build_args(sig, x) ==
    [missing |-> sig.required \ x, args |-> x \cap sig.params]

\* the signature check in front of a call: error when a required name lacks
CallArgs(sig, x) ==
    IF _build_args(sig, x).missing # {}
    THEN [err |-> "MissingArgs", args |-> {}]
    ELSE [err |-> "none", args |-> _build_args(sig, x).args]

\* dict[key] = value on a mapping kept as a function
DictSet(d, k, v) == [n \in DOMAIN d \cup {k} |-> IF n = k THEN v ELSE d[n]]

EmptyDict == [n \in {} |-> 0]

\* ------------------------------------------------------------ variables
VARIABLES
    \* the client program
    cpc,            \* "start", "has_tester", "testing", "trainer", "done", "aborted"
    tobj,           \* the Tester object the client holds, or NoTester
    \* the model (nn.Module)
    training,       \* model.training: TRUE after train(), FALSE after eval()
    grad,           \* backward passes accumulated since the last zero_grad()
    params,         \* optimizer steps applied to the parameters
    net,            \* the module: [sig, returns] of its forward and predict
    \* a running Tester.test()
    tpc,            \* "idle", "batches", "metrics", "check_error"
    tcaller,        \* who called test(): "client", "check", "validation"
    tself,          \* the Tester object test() runs on
    tbatch,         \* batches test() has forwarded
    output,         \* accumulated predictions: the batches, in order
    truths,         \* accumulated ground truths: the batches, in order
    outIter,        \* what is left of itertools.chain(*output)
    truthIter,      \* what is left of itertools.chain(*truths)
    mi,             \* metrics test() has applied
    eval_results,   \* metric class name -> result
    \* the Trainer
    pc,             \* position in Trainer.__init__ / _check_code / train()
    cfg,            \* the arguments of Trainer(...) read by lines 39-57
    trainer,        \* the fields of the Trainer set by lines 59-69 and 88-89
                    \* (dev_data: self.dev_data is a non-empty DataSet)
    self_tester,    \* self.tester, or NoTester when the attribute is not set
    best_accuracy,  \* self._best_accuracy
    step,           \* self.step
    epoch,          \* local epoch of train()
    bi,             \* batches of the current epoch already trained
    chk,            \* batch_count of _check_code: batches checked so far
    vsite,          \* where do_validation was called from: "batch" or "epoch"
    writer,         \* self._summary_writer: "none", "open", "closed"
    err,            \* the exception that ended the program, or "none"
    \* history
    ops,            \* calls made for the current training batch, in order
    nOpt,           \* optimizer steps made by train()
    nEpochs,        \* epochs train() has finished
    nVal,           \* do_validation calls: [batch, epoch]
    nSaved,         \* checkpoints saved
    seen,           \* what each applied metric was given by the last test()
    lastCall,       \* the last forward call: site, args, mode, returns
    lastVal,        \* the last finished best_eval_result call
    chkOps,         \* calls made by _check_code, in order
    tnew            \* the last Tester(...) call: attrs, args, result

clientVars == <<cpc, tobj>>
modelVars == <<training, grad, params, net>>
testVars == <<tpc, tcaller, tself, tbatch, output, truths, outIter, truthIter,
              mi, eval_results>>
trainerVars == <<pc, cfg, trainer, self_tester, best_accuracy, step, epoch, bi, chk,
                 vsite, writer, err>>
histVars == <<ops, nOpt, nEpochs, nVal, nSaved, seen, lastCall, lastVal, chkOps,
              tnew>>
vars == <<clientVars, modelVars, testVars, trainerVars, histVars>>

\* ------------------------------------------------------------- Tester
\* Tester.__init__(data, model, metrics, batch_size, use_cuda, verbose) run on
\* an instance that holds the attributes attrs when __init__ is entered
\* (none for Tester(...); a subclass may bind some before it delegates).
\* a = [dataOk, modelOk, predict, cuda, metrics, records, batch_size], where
\* predict says what hasattr/callable find and cuda is torch.cuda.is_available()
\* The result is the constructed object, or the exception raised.
Tester__init__(attrs, a) ==
    IF ~a.dataOk THEN [made |-> FALSE, err |-> "TypeError"]
    ELSE IF ~a.modelOk THEN [made |-> FALSE, err |-> "TypeError"]
    ELSE IF "_model" \notin attrs                      \* hasattr(self._model, ...)
    THEN [made |-> FALSE, err |-> "AttributeError"]
    ELSE IF a.predict = "noncallable" THEN [made |-> FALSE, err |-> "TypeError"]
    ELSE IF a.cuda /\ "use_cuda" \notin attrs          \* ... and self.use_cuda
    THEN [made |-> FALSE, err |-> "AttributeError"]
    ELSE [made |-> TRUE, err |-> "none",
          predict_func |-> IF a.predict = "callable" THEN "predict" ELSE "forward",
          metrics |-> a.metrics, records |-> a.records,
          batch_size |-> a.batch_size]

\* the arguments a client passes to Tester(...)
TesterArgs ==
    [dataOk : BOOLEAN, modelOk : BOOLEAN,
     predict : {"callable", "noncallable", "absent"}, cuda : BOOLEAN,
     metrics : MetricLists, records : 0..MaxDevRecords, batch_size : {1}]

\* entering Tester.test() (lines 53-56): eval mode, empty accumulators
TestEnter(obj, caller) ==
    /\ tpc' = "batches"
    /\ tcaller' = caller
    /\ tself' = obj
    /\ tbatch' = 0
    /\ output' = <<>>
    /\ truths' = <<>>
    /\ outIter' = <<>>
    /\ truthIter' = <<>>
    /\ mi' = 0
    /\ eval_results' = EmptyDict
    /\ training' = FALSE
    /\ seen' = <<>>

\* an exception leaves test(): it reaches the caller, and through the Trainer
\* (whose train() closes the summary writer in its finally clause) the client
TestRaise(e) ==
    /\ tpc' = "idle"
    /\ err' = e
    /\ cpc' = "aborted"
    /\ pc' = IF tcaller = "client" THEN pc ELSE "raised"
    /\ writer' = IF tcaller = "validation" THEN "closed" ELSE writer

\* Tester._data_forward(func, x): the arguments func declares, then the call
_data_forward(network, x) ==
    LET c == CallArgs(network.sig, x) IN
    IF c.err # "none"
    THEN [err |-> c.err, called |-> FALSE, args |-> {}]
    ELSE [err |-> "none", called |-> TRUE, args |-> c.args]

\* lines 59-66: one batch through the prediction function
TestForward ==
    /\ tpc = "batches"
    /\ tbatch < NumBatches(tself.records, tself.batch_size)
    /\ LET r == _data_forward(net, BatchXFields) IN
       /\ lastCall' = IF r.called
                      THEN [site |-> "tester", func |-> tself.predict_func,
                            args |-> r.args, mode |-> training,
                            returns |-> net.returns]
                      ELSE lastCall
       /\ IF r.err # "none"
          THEN /\ TestRaise(r.err)
               /\ UNCHANGED <<tbatch, output, truths>>
          ELSE IF net.returns # "dict"            \* assert isinstance(...)
          THEN /\ TestRaise("AssertionError")
               /\ UNCHANGED <<tbatch, output, truths>>
          ELSE /\ tbatch' = tbatch + 1
               /\ output' = Append(output, tbatch + 1)
               /\ truths' = Append(truths, tbatch + 1)
               /\ UNCHANGED <<tpc, err, cpc, pc, writer>>
    /\ UNCHANGED <<tobj, training, grad, params, net, tcaller, tself, outIter,
                   truthIter, mi, eval_results, cfg, trainer, self_tester, best_accuracy,
                   step, epoch, bi, chk, vsite, ops, nOpt, nEpochs, nVal, nSaved,
                   seen, lastVal, chkOps, tnew>>

\* lines 67-71: the accumulated lists become one-shot chain iterators
TestChain ==
    /\ tpc = "batches"
    /\ tbatch = NumBatches(tself.records, tself.batch_size)
    /\ tpc' = "metrics"
    /\ outIter' = output
    /\ truthIter' = truths
    /\ eval_results' = EmptyDict
    /\ UNCHANGED <<clientVars, modelVars, tcaller, tself, tbatch, output, truths,
                   mi, trainerVars, histVars>>

\* lines 73-76: the next metric reads the iterators and its result is stored
\* under its class name; or it raises CheckError
TestMetric ==
    /\ tpc = "metrics"
    /\ mi < Len(tself.metrics)
    /\ \/ \E s \in Scores :
            /\ seen' = Append(seen, [pred |-> outIter, truth |-> truthIter])
            /\ outIter' = <<>>
            /\ truthIter' = <<>>
            /\ eval_results' = DictSet(eval_results, tself.metrics[mi + 1], s)
            /\ mi' = mi + 1
            /\ tpc' = "metrics"
       \/ /\ tpc' = "check_error"
          /\ UNCHANGED <<seen, outIter, truthIter, eval_results, mi>>
    /\ UNCHANGED <<clientVars, modelVars, tcaller, tself, tbatch, output, truths,
                   trainerVars, ops, nOpt, nEpochs, nVal, nSaved, lastCall,
                   lastVal, chkOps, tnew>>

\* lines 77-80: _check_loss_evaluate reports the CheckError; it returns or raises
TestCheckError ==
    /\ tpc = "check_error"
    /\ \/ /\ tpc' = "finish"
          /\ UNCHANGED <<cpc, pc, err, writer>>
       \/ TestRaise("CheckError")
    /\ UNCHANGED <<tobj, modelVars, tcaller, tself, tbatch, output, truths,
                   outIter, truthIter, mi, eval_results, cfg, trainer, self_tester,
                   best_accuracy, step, epoch, bi, chk, vsite, histVars>>

\* a test() that returns without line 85
TestReturnKeepEval ==
    /\ \/ tpc = "metrics" /\ mi = Len(tself.metrics)
       \/ tpc = "finish"
    /\ tpc' = "idle"
    /\ cpc' = IF tcaller = "client" THEN "done" ELSE cpc
    /\ pc' = CASE tcaller = "validation" -> "validated"
               [] tcaller = "check" -> "assign"
               [] OTHER -> pc
    /\ UNCHANGED <<tobj, modelVars, tcaller, tself, tbatch, output, truths,
                   outIter, truthIter, mi, eval_results, cfg, trainer,
                   self_tester, best_accuracy, step, epoch, bi, chk, vsite,
                   writer, err, histVars>>

\* lines 83-86: back to training mode, eval_results returned to the caller
TestReturn ==
    /\ \/ tpc = "metrics" /\ mi = Len(tself.metrics)
       \/ tpc = "finish"
    /\ tpc' = "idle"
    /\ training' = TRUE
    /\ cpc' = IF tcaller = "client" THEN "done" ELSE cpc
    /\ pc' = CASE tcaller = "validation" -> "validated"
               [] tcaller = "check" -> "assign"
               [] OTHER -> pc
    /\ UNCHANGED <<tobj, grad, params, net, tcaller, tself, tbatch, output,
                   truths, outIter, truthIter, mi, eval_results, cfg, trainer, self_tester,
                   best_accuracy, step, epoch, bi, chk, vsite, writer, err,
                   histVars>>

\* --------------------------------------------------------- the client
\* t = Tester(data, model, metrics, ...), on an instance holding attrs
ClientNewTester ==
    /\ cpc = "start"
    /\ \E attrs \in SUBSET {"_model", "use_cuda"}, a \in TesterArgs :
         LET t == Tester__init__(attrs, a) IN
         /\ tobj' = t
         /\ cpc' = IF t.made THEN "has_tester" ELSE "aborted"
         /\ err' = t.err
         /\ tnew' = [called |-> TRUE, attrs |-> attrs, args |-> a, result |-> t]
    /\ UNCHANGED <<modelVars, testVars, pc, cfg, trainer, self_tester,
                   best_accuracy, step, epoch, bi, chk, vsite, writer, ops, nOpt,
                   nEpochs, nVal, nSaved, seen, lastCall, lastVal, chkOps>>

\* t.test()
ClientTest ==
    /\ cpc = "has_tester"
    /\ tpc = "idle"
    /\ cpc' = "testing"
    /\ TestEnter(tobj, "client")
    /\ UNCHANGED <<tobj, grad, params, net, trainerVars, ops, nOpt, nEpochs, nVal,
                   nSaved, lastCall, lastVal, chkOps, tnew>>

\* ------------------------------------------------------------- Trainer
\* The arguments a client passes to Trainer(...) are drawn where __init__
\* first reads them: those of the argument checks and of _check_code here
\* (dev: dev_data is not None; devRecords: its records) ...
TrainerArgs ==
    [made : {TRUE}, dataOk : BOOLEAN, modelOk : BOOLEAN, dev : BOOLEAN,
     devRecords : {1}, metrics : MetricLists, check_code_level : {0 - 1, 0},
     records : 0..MaxRecords]

\* ... and those that lines 59-70 store in the Trainer (save_path: it is not
\* None) ...
TrainerFields ==
    [made : {TRUE}, n_epochs : (0 - 1)..MaxEpochs, batch_size : BatchSizes,
     validate_every : (0 - 1)..MaxValidateEvery, save_path : BOOLEAN]

\* the Tester objects a client of the Trainer may hold (built beforehand on an
\* instance that already held _model and use_cuda), with metrics of distinct
\* classes
ClientTesters ==
    { Tester__init__({"_model", "use_cuda"}, a) :
        a \in { x \in TesterArgs :
                  /\ x.dataOk /\ x.modelOk /\ ~x.cuda
                  /\ x.predict = "callable"
                  /\ x.records = 1
                  /\ x.metrics # <<"AccuracyMetric", "AccuracyMetric">> } }

\* ... and the **kwargs, which lines 88-89 bind as attributes of the Trainer:
\* none, or tester=<a Tester object> with or without eval_sort_key=<a name>
\* and dev_data=<the DataSet of that Tester>
\* (a sort key goes with a Tester whose metrics are not exactly one)
Kwargs ==
    {[tester |-> NoTester, eval_sort_key |-> "unset", dev_data |-> FALSE]} \cup
    { k \in [tester : ClientTesters, eval_sort_key : {"unset", "AccuracyMetric"},
             dev_data : BOOLEAN] :
        Len(k.tester.metrics) = 1 => k.eval_sort_key = "unset" }

\* the Tester(...) calls the Trainer makes itself (lines 82-86, 296-297):
\* a plain instance, which holds no attribute yet
OwnTesterArgs(p, cuda, records, batch_size) ==
    [dataOk |-> TRUE, modelOk |-> TRUE, predict |-> p, cuda |-> cuda,
     metrics |-> cfg.metrics, records |-> records, batch_size |-> batch_size]

OwnTester(p, cuda, records, batch_size) ==
    Tester__init__({}, OwnTesterArgs(p, cuda, records, batch_size))

TestIdle ==
    UNCHANGED <<tpc, tcaller, tself, tbatch, output, truths, outIter, truthIter,
                mi, eval_results, training, seen>>

\* an exception leaves Trainer.__init__
CtorRaise(e) ==
    /\ pc' = "raised"
    /\ err' = e
    /\ cpc' = "aborted"

\* an exception leaves train(): its finally clause closes the summary writer
TrainRaise(e) ==
    /\ pc' = "raised"
    /\ err' = e
    /\ cpc' = "aborted"
    /\ writer' = "closed"

\* Trainer(...), lines 39-57: argument checks, then the pre-flight check
ClientNewTrainer ==
    /\ cpc = "start"
    /\ \E a \in TrainerArgs :
         /\ cfg' = a
         /\ IF ~a.dataOk \/ ~a.modelOk THEN CtorRaise("TypeError")
            ELSE IF (a.metrics = <<>>) /\ a.dev THEN CtorRaise("ValueError")
            ELSE IF (a.metrics # <<>>) /\ ~a.dev THEN CtorRaise("ValueError")
            ELSE /\ cpc' = "trainer"
                 /\ pc' = IF a.check_code_level > 0 - 1 THEN "chk_next" ELSE "assign"
                 /\ err' = err
    /\ TestIdle
    /\ UNCHANGED <<tobj, grad, params, net, trainer, self_tester, best_accuracy, step,
                   epoch, bi, chk, vsite, writer, ops, nOpt, nEpochs, nVal, nSaved,
                   lastCall, lastVal, chkOps, tnew>>

\* a break that comes one batch late
CheckEnoughLate(batch_count) == batch_count >= DEFAULT_CHECK_NUM_BATCH

\* line 292: leave the loop once DEFAULT_CHECK_NUM_BATCH batches are checked
CheckEnough(batch_count) == batch_count + 1 >= DEFAULT_CHECK_NUM_BATCH

\* line 260: the next batch of the sequential iterator, if there is one
ChkNext ==
    /\ pc = "chk_next"
    /\ pc' = IF chk < NumBatches(cfg.records, DEFAULT_CHECK_BATCH_SIZE)
             THEN "chk_forward" ELSE "chk_dev"
    /\ TestIdle
    /\ UNCHANGED <<clientVars, grad, params, net, cfg, trainer, self_tester, best_accuracy,
                   step, epoch, bi, chk, vsite, writer, err, ops, nOpt, nEpochs,
                   nVal, nSaved, lastCall, lastVal, chkOps, tnew>>

\* a forward that hands back whatever the module returned
data_forward_unchecked(network, x) ==
    LET c == CallArgs(network.sig, x) IN
    IF c.err # "none"
    THEN [err |-> c.err, called |-> FALSE, args |-> {}]
    ELSE [err |-> "none", called |-> TRUE, args |-> c.args]

\* lines 267-271 (and Trainer.data_forward, lines 195-199): the arguments
\* forward declares, the call, and the check that a dict came back
data_forward(network, x) ==
    LET c == CallArgs(network.sig, x) IN
    IF c.err # "none"
    THEN [err |-> c.err, called |-> FALSE, args |-> {}]
    ELSE IF network.returns # "dict"
    THEN [err |-> "TypeError", called |-> TRUE, args |-> c.args]
    ELSE [err |-> "none", called |-> TRUE, args |-> c.args]

\* lines 261-271: forward of the checked batch
ChkForward ==
    /\ pc = "chk_forward"
    /\ LET r == data_forward(net, BatchXFields) IN
       /\ lastCall' = IF r.called
                      THEN [site |-> "check", func |-> "forward", args |-> r.args,
                            mode |-> training, returns |-> net.returns]
                      ELSE lastCall
       /\ chkOps' = IF r.called THEN Append(chkOps, "forward") ELSE chkOps
       /\ IF r.err # "none" THEN CtorRaise(r.err)
          ELSE /\ pc' = "chk_loss"
               /\ UNCHANGED <<err, cpc>>
    /\ TestIdle
    /\ UNCHANGED <<tobj, grad, params, net, cfg, trainer, self_tester, best_accuracy, step,
                   epoch, bi, chk, vsite, writer, ops, nOpt, nEpochs, nVal, nSaved,
                   lastVal, tnew>>

\* lines 275-285: the loss of the checked batch; the losser may raise
\* CheckError, and on the first batch a loss that is no scalar tensor raises
ChkLoss ==
    /\ pc = "chk_loss"
    /\ \/ /\ pc' = "chk_backward"
          /\ chkOps' = Append(chkOps, "loss")
          /\ UNCHANGED <<err, cpc>>
       \/ /\ pc' = "chk_err"
          /\ UNCHANGED <<chkOps, err, cpc>>
       \/ /\ chk = 0
          /\ CtorRaise("TypeError")
          /\ chkOps' = Append(chkOps, "loss")
    /\ TestIdle
    /\ UNCHANGED <<tobj, grad, params, net, cfg, trainer, self_tester, best_accuracy, step,
                   epoch, bi, chk, vsite, writer, ops, nOpt, nEpochs, nVal, nSaved,
                   lastCall, lastVal, tnew>>

\* line 286: loss.backward()
ChkBackward ==
    /\ pc = "chk_backward"
    /\ grad' = grad + 1
    /\ chkOps' = Append(chkOps, "backward")
    /\ pc' = "chk_zero"
    /\ TestIdle
    /\ UNCHANGED <<clientVars, params, net, cfg, trainer, self_tester, best_accuracy, step,
                   epoch, bi, chk, vsite, writer, err, ops, nOpt, nEpochs, nVal,
                   nSaved, lastCall, lastVal, tnew>>

\* lines 287-290: _check_loss_evaluate reports the CheckError; it returns or raises
ChkLossError ==
    /\ pc = "chk_err"
    /\ \/ /\ pc' = "chk_zero"
          /\ UNCHANGED <<err, cpc>>
       \/ CtorRaise("CheckError")
    /\ TestIdle
    /\ UNCHANGED <<tobj, grad, params, net, cfg, trainer, self_tester, best_accuracy, step,
                   epoch, bi, chk, vsite, writer, ops, nOpt, nEpochs, nVal, nSaved,
                   lastCall, lastVal, chkOps, tnew>>

\* lines 291-293: model.zero_grad(), then the break
ChkZeroGrad ==
    /\ pc = "chk_zero"
    /\ grad' = 0
    /\ chkOps' = Append(chkOps, "zero_grad")
    /\ chk' = chk + 1
    /\ pc' = IF CheckEnough(chk) THEN "chk_dev" ELSE "chk_next"
    /\ TestIdle
    /\ UNCHANGED <<clientVars, params, net, cfg, trainer, self_tester, best_accuracy, step,
                   epoch, bi, vsite, writer, err, ops, nOpt, nEpochs, nVal, nSaved,
                   lastCall, lastVal, tnew>>

\* lines 295-298: with dev data, a Tester over the first records and its test()
ChkDev ==
    /\ pc = "chk_dev"
    /\ IF cfg.dev
       THEN \E p \in {"callable", "noncallable", "absent"}, cuda \in BOOLEAN :
              LET n == Min(cfg.records,
                           DEFAULT_CHECK_BATCH_SIZE * DEFAULT_CHECK_NUM_BATCH)
                  t == OwnTester(p, cuda, n, DEFAULT_CHECK_BATCH_SIZE) IN
              /\ tnew' = [called |-> TRUE, attrs |-> {},
                          args |-> OwnTesterArgs(p, cuda, n,
                                                 DEFAULT_CHECK_BATCH_SIZE),
                          result |-> t]
              /\ IF t.made
                 THEN /\ TestEnter(t, "check")
                      /\ pc' = "chk_test"
                      /\ UNCHANGED <<err, cpc>>
                 ELSE /\ CtorRaise(t.err)
                      /\ TestIdle
       ELSE /\ pc' = "assign"
            /\ TestIdle
            /\ UNCHANGED <<err, cpc, tnew>>
    /\ UNCHANGED <<tobj, grad, params, net, cfg, trainer, self_tester,
                   best_accuracy, step, epoch, bi, chk, vsite, writer, ops, nOpt,
                   nEpochs, nVal, nSaved, lastCall, lastVal, chkOps>>

\* lines 59-91: the fields, the Tester when there is dev data, the kwargs
TrainerAssign ==
    /\ pc = "assign"
    /\ best_accuracy' = 0
    /\ step' = 0
    /\ \E f \in TrainerFields, kw \in Kwargs :
       \E p \in IF cfg.dev THEN {"callable", "noncallable", "absent"} ELSE {"absent"},
          cuda \in IF cfg.dev THEN BOOLEAN ELSE {FALSE} :
         LET t == IF cfg.dev
                  THEN OwnTester(p, cuda, cfg.devRecords, f.batch_size)
                  ELSE NoTester IN
         /\ tnew' = IF cfg.dev
                    THEN [called |-> TRUE, attrs |-> {},
                          args |-> OwnTesterArgs(p, cuda, cfg.devRecords,
                                                 f.batch_size),
                          result |-> t]
                    ELSE tnew
         /\ IF cfg.dev /\ ~t.made
            THEN /\ CtorRaise(t.err)
                 /\ UNCHANGED <<self_tester, trainer>>
            ELSE /\ trainer' = [made |-> TRUE, n_epochs |-> f.n_epochs,
                                 batch_size |-> f.batch_size,
                                 validate_every |-> f.validate_every,
                                 save_path |-> f.save_path,
                                 dev_data |-> cfg.dev \/ kw.dev_data,
                                 eval_sort_key |-> kw.eval_sort_key]
                 /\ self_tester' = IF kw.tester.made THEN kw.tester ELSE t
                 /\ pc' = "constructed"
                 /\ UNCHANGED <<err, cpc>>
    /\ TestIdle
    /\ UNCHANGED <<tobj, grad, params, net, cfg, epoch, bi, chk, vsite, writer,
                   ops, nOpt, nEpochs, nVal, nSaved, lastCall, lastVal, chkOps>>

\* train(), lines 101-121: training mode, the summary writer, epoch = 1
TrainBegin ==
    /\ pc = "constructed"
    /\ training' = TRUE
    /\ writer' = "open"
    /\ epoch' = 1
    /\ pc' = "epoch_head"
    /\ UNCHANGED <<clientVars, grad, params, net, testVars, cfg, trainer, self_tester,
                   best_accuracy, step, bi, chk, vsite, err, histVars>>

\* an epoch loop that stops one epoch early
MoreEpochsStrict(e, n_epochs) == e < n_epochs

\* line 122: while epoch <= self.n_epochs
MoreEpochs(e, n_epochs) == e <= n_epochs

\* lines 122-124 and 132-134: a new batch iterator for the next epoch, or the
\* end of train()
EpochHead ==
    /\ pc = "epoch_head"
    /\ IF MoreEpochs(epoch, trainer.n_epochs)
       THEN /\ bi' = 0
            /\ pc' = "batch_next"
            /\ UNCHANGED <<writer, cpc>>
       ELSE /\ writer' = "closed"
            /\ pc' = "done"
            /\ cpc' = "done"
            /\ UNCHANGED bi
    /\ TestIdle
    /\ UNCHANGED <<tobj, grad, params, net, cfg, trainer, self_tester, best_accuracy, step,
                   epoch, chk, vsite, err, ops, nOpt, nEpochs, nVal, nSaved,
                   lastCall, lastVal, chkOps, tnew>>

\* line 144: the next batch of the epoch, if there is one
BatchNext ==
    /\ pc = "batch_next"
    /\ IF bi < NumBatches(cfg.records, trainer.batch_size)
       THEN pc' = "forward" /\ ops' = <<>>
       ELSE pc' = "epoch_end" /\ ops' = ops
    /\ TestIdle
    /\ UNCHANGED <<clientVars, grad, params, net, cfg, trainer, self_tester, best_accuracy,
                   step, epoch, bi, chk, vsite, writer, err, nOpt, nEpochs, nVal,
                   nSaved, lastCall, lastVal, chkOps, tnew>>

\* lines 146-147: prediction = self.data_forward(model, batch_x)
DataForward ==
    /\ pc = "forward"
    /\ LET r == data_forward(net, BatchXFields) IN
       /\ lastCall' = IF r.called
                      THEN [site |-> "train", func |-> "forward", args |-> r.args,
                            mode |-> training, returns |-> net.returns]
                      ELSE lastCall
       /\ ops' = IF r.called THEN Append(ops, "forward") ELSE ops
       /\ IF r.err # "none" THEN TrainRaise(r.err)
          ELSE /\ pc' = "loss"
               /\ UNCHANGED <<err, cpc, writer>>
    /\ TestIdle
    /\ UNCHANGED <<tobj, grad, params, net, cfg, trainer, self_tester, best_accuracy, step,
                   epoch, bi, chk, vsite, nOpt, nEpochs, nVal, nSaved, lastVal,
                   chkOps, tnew>>

\* line 148: loss = self.get_loss(prediction, batch_y); the losser may raise
GetLoss ==
    /\ pc = "loss"
    /\ \/ /\ pc' = "zero_grad"
          /\ ops' = Append(ops, "loss")
          /\ UNCHANGED <<err, cpc, writer>>
       \/ /\ TrainRaise("CheckError")
          /\ UNCHANGED ops
    /\ TestIdle
    /\ UNCHANGED <<tobj, grad, params, net, cfg, trainer, self_tester, best_accuracy, step,
                   epoch, bi, chk, vsite, nOpt, nEpochs, nVal, nSaved, lastCall,
                   lastVal, chkOps, tnew>>

\* grad_backward, line 208: self.model.zero_grad()
ZeroGrad ==
    /\ pc = "zero_grad"
    /\ grad' = 0
    /\ ops' = Append(ops, "zero_grad")
    /\ pc' = "backward"
    /\ TestIdle
    /\ UNCHANGED <<clientVars, params, net, cfg, trainer, self_tester, best_accuracy, step,
                   epoch, bi, chk, vsite, writer, err, nOpt, nEpochs, nVal, nSaved,
                   lastCall, lastVal, chkOps, tnew>>

\* grad_backward, line 209: loss.backward()
Backward ==
    /\ pc = "backward"
    /\ grad' = grad + 1
    /\ ops' = Append(ops, "backward")
    /\ pc' = "update"
    /\ TestIdle
    /\ UNCHANGED <<clientVars, params, net, cfg, trainer, self_tester, best_accuracy, step,
                   epoch, bi, chk, vsite, writer, err, nOpt, nEpochs, nVal, nSaved,
                   lastCall, lastVal, chkOps, tnew>>

\* line 150, update(): self.optimizer.step()
Update ==
    /\ pc = "update"
    /\ params' = params + 1
    /\ nOpt' = nOpt + 1
    /\ ops' = Append(ops, "step")
    /\ pc' = "log"
    /\ TestIdle
    /\ UNCHANGED <<clientVars, grad, net, cfg, trainer, self_tester, best_accuracy, step,
                   epoch, bi, chk, vsite, writer, err, nEpochs, nVal, nSaved,
                   lastCall, lastVal, chkOps, tnew>>

\* line 164: validate after this batch?
ValidateNow(validate_every, s) ==
    validate_every > 0 /\ s % validate_every = 0

\* line 129: validate at the end of the epoch?
ValidateAtEpochEnd(dev, validate_every) == dev /\ validate_every <= 0

\* do_validation(), line 170: res = self.tester.test()
DoValidation(site) ==
    /\ nVal' = [nVal EXCEPT ![site] = @ + 1]
    /\ vsite' = site
    /\ IF self_tester.made
       THEN /\ TestEnter(self_tester, "validation")
            /\ pc' = "validating"
            /\ UNCHANGED <<err, cpc, writer>>
       ELSE /\ TrainRaise("AttributeError")
            /\ TestIdle

\* lines 151-165: the summary scalars, then the per-step validation
LogValidate ==
    /\ pc = "log"
    /\ IF ValidateNow(trainer.validate_every, step)
       THEN DoValidation("batch")
       ELSE /\ pc' = "inc"
            /\ TestIdle
            /\ UNCHANGED <<nVal, vsite, err, cpc, writer>>
    /\ UNCHANGED <<tobj, grad, params, net, cfg, trainer, self_tester, best_accuracy, step,
                   epoch, bi, chk, ops, nOpt, nEpochs, nSaved, lastCall, lastVal,
                   chkOps, tnew>>

\* a comparison that also takes a score equal to the best one
best_eval_result_ge(metrics, best, sort_key) ==
    IF Cardinality(DOMAIN metrics) # 1 /\ sort_key = "unset"
    THEN [err |-> "AttributeError", ret |-> FALSE, best |-> best, accuracy |-> 0]
    ELSE IF Cardinality(DOMAIN metrics) # 1 /\ sort_key \notin DOMAIN metrics
    THEN [err |-> "KeyError", ret |-> FALSE, best |-> best, accuracy |-> 0]
    ELSE LET accuracy == IF Cardinality(DOMAIN metrics) = 1
                         THEN metrics[CHOOSE k \in DOMAIN metrics : TRUE]
                         ELSE metrics[sort_key] IN
         IF accuracy >= best
         THEN [err |-> "none", ret |-> TRUE, best |-> accuracy, accuracy |-> accuracy]
         ELSE [err |-> "none", ret |-> FALSE, best |-> best, accuracy |-> accuracy]

\* best_eval_result(metrics), lines 232-247, on the mapping test() returned
best_eval_result(metrics, best, sort_key) ==
    IF Cardinality(DOMAIN metrics) # 1 /\ sort_key = "unset"
    THEN [err |-> "AttributeError", ret |-> FALSE, best |-> best, accuracy |-> 0]
    ELSE IF Cardinality(DOMAIN metrics) # 1 /\ sort_key \notin DOMAIN metrics
    THEN [err |-> "KeyError", ret |-> FALSE, best |-> best, accuracy |-> 0]
    ELSE LET accuracy == IF Cardinality(DOMAIN metrics) = 1
                         THEN metrics[CHOOSE k \in DOMAIN metrics : TRUE]
                         ELSE metrics[sort_key] IN
         IF accuracy > best
         THEN [err |-> "none", ret |-> TRUE, best |-> accuracy, accuracy |-> accuracy]
         ELSE [err |-> "none", ret |-> FALSE, best |-> best, accuracy |-> accuracy]

\* do_validation(), lines 171-174, once test() has returned: the best score
\* and the checkpoint; then on with the batch (line 167) or the epoch (131).
\* res, and what test() had accumulated, are gone when do_validation returns.
ValidationFinish ==
    /\ pc = "validated"
    /\ IF trainer.save_path
       THEN LET r == best_eval_result(eval_results, best_accuracy,
                                      trainer.eval_sort_key) IN
            IF r.err # "none"
            THEN /\ TrainRaise(r.err)
                 /\ UNCHANGED <<best_accuracy, nSaved, lastVal, epoch, nEpochs>>
            ELSE /\ best_accuracy' = r.best
                 /\ nSaved' = IF r.ret THEN nSaved + 1 ELSE nSaved
                 /\ lastVal' = [any |-> TRUE, score |-> r.accuracy, ret |-> r.ret,
                                hadPrev |-> lastVal.any,
                                prevMax |-> IF ~lastVal.any THEN r.accuracy
                                            ELSE IF ~lastVal.hadPrev
                                                    \/ lastVal.score > lastVal.prevMax
                                            THEN lastVal.score
                                            ELSE lastVal.prevMax,
                                bestBefore |-> best_accuracy,
                                bestAfter |-> r.best]
                 /\ pc' = IF vsite = "batch" THEN "inc" ELSE "epoch_head"
                 /\ epoch' = IF vsite = "batch" THEN epoch ELSE epoch + 1
                 /\ nEpochs' = IF vsite = "batch" THEN nEpochs ELSE nEpochs + 1
                 /\ UNCHANGED <<err, cpc, writer>>
       ELSE /\ pc' = IF vsite = "batch" THEN "inc" ELSE "epoch_head"
            /\ epoch' = IF vsite = "batch" THEN epoch ELSE epoch + 1
            /\ nEpochs' = IF vsite = "batch" THEN nEpochs ELSE nEpochs + 1
            /\ UNCHANGED <<best_accuracy, nSaved, lastVal, err, cpc, writer>>
    /\ output' = <<>>
    /\ truths' = <<>>
    /\ eval_results' = EmptyDict
    /\ seen' = <<>>
    /\ UNCHANGED <<tobj, training, grad, params, net, tpc, tcaller, tself, tbatch,
                   outIter, truthIter, mi, cfg, trainer, self_tester, step, bi,
                   chk, vsite, ops, nOpt, nVal, lastCall, chkOps, tnew>>

\* line 167: self.step += 1
IncStep ==
    /\ pc = "inc"
    /\ step' = step + 1
    /\ bi' = bi + 1
    /\ pc' = "batch_next"
    /\ TestIdle
    /\ UNCHANGED <<clientVars, grad, params, net, cfg, trainer, self_tester, best_accuracy,
                   epoch, chk, vsite, writer, err, ops, nOpt, nEpochs, nVal, nSaved,
                   lastCall, lastVal, chkOps, tnew>>

\* lines 128-131: the end-of-epoch validation, then epoch += 1
EpochEnd ==
    /\ pc = "epoch_end"
    /\ IF ValidateAtEpochEnd(trainer.dev_data, trainer.validate_every)
       THEN /\ DoValidation("epoch")
            /\ UNCHANGED <<epoch, nEpochs>>
       ELSE /\ epoch' = epoch + 1
            /\ nEpochs' = nEpochs + 1
            /\ pc' = "epoch_head"
            /\ TestIdle
            /\ UNCHANGED <<nVal, vsite, err, cpc, writer>>
    /\ UNCHANGED <<tobj, grad, params, net, cfg, trainer, self_tester, best_accuracy, step,
                   bi, chk, ops, nOpt, nSaved, lastCall, lastVal, chkOps, tnew>>

InitCommon ==
    /\ training \in BOOLEAN
    /\ grad = 0
    /\ params = 0
    /\ net \in [sig : Signatures, returns : {"dict", "other"}]
    /\ tpc = "idle"
    /\ tcaller = "client"
    /\ tself = NoTester
    /\ tbatch = 0
    /\ output = <<>>
    /\ truths = <<>>
    /\ outIter = <<>>
    /\ truthIter = <<>>
    /\ mi = 0
    /\ eval_results = EmptyDict
    /\ pc = "none"
    /\ cfg = [made |-> FALSE]
    /\ trainer = [made |-> FALSE]
    /\ self_tester = NoTester
    /\ best_accuracy = 0
    /\ step = 0
    /\ epoch = 0
    /\ bi = 0
    /\ chk = 0
    /\ vsite = "none"
    /\ writer = "none"
    /\ err = "none"
    /\ ops = <<>>
    /\ nOpt = 0
    /\ nEpochs = 0
    /\ nVal = [batch |-> 0, epoch |-> 0]
    /\ nSaved = 0
    /\ seen = <<>>
    /\ lastCall = NoCall
    /\ lastVal = NoValidation
    /\ chkOps = <<>>
    /\ tnew = [called |-> FALSE]

\* a client that builds a Tester and calls its test()
InitTester == cpc = "start" /\ tobj = NoTester /\ InitCommon

NextTester ==
    \/ ClientNewTester
    \/ ClientTest
    \/ TestForward
    \/ TestChain
    \/ TestMetric
    \/ TestCheckError
    \/ TestReturn

SpecTester == InitTester /\ [][NextTester]_vars

\* a client that builds a Trainer and calls its train()
Init ==
    /\ cpc = "start"
    /\ tobj = NoTester
    /\ InitCommon

Next ==
    \/ ClientNewTrainer
    \/ ChkNext
    \/ ChkForward
    \/ ChkLoss
    \/ ChkBackward
    \/ ChkLossError
    \/ ChkZeroGrad
    \/ ChkDev
    \/ TrainerAssign
    \/ TrainBegin
    \/ EpochHead
    \/ BatchNext
    \/ DataForward
    \/ GetLoss
    \/ ZeroGrad
    \/ Backward
    \/ Update
    \/ LogValidate
    \/ ValidationFinish
    \/ IncStep
    \/ EpochEnd
    \/ TestForward
    \/ TestChain
    \/ TestMetric
    \/ TestCheckError
    \/ TestReturn

Spec == Init /\ [][Next]_vars

\* =============================================================== claims
TrainSeq == <<"forward", "loss", "zero_grad", "backward", "step">>

IsPrefix(s, t) == Len(s) <= Len(t) /\ s = SubSeq(t, 1, Len(s))

IsForward(op) == op = "forward"

\* batches per epoch, and epochs, of the constructed Trainer
TrainBatches == NumBatches(cfg.records, trainer.batch_size)
TrainEpochs == IF trainer.n_epochs > 0 THEN trainer.n_epochs ELSE 0

\* batches the pre-flight check is to run
CheckBatches ==
    IF cfg.check_code_level > 0 - 1
    THEN Min(DEFAULT_CHECK_NUM_BATCH,
             NumBatches(cfg.records, DEFAULT_CHECK_BATCH_SIZE))
    ELSE 0

\* how far the current batch has come, by position
OpsDone ==
    CASE pc = "forward" -> 0
      [] pc = "loss" -> 1
      [] pc = "zero_grad" -> 2
      [] pc = "backward" -> 3
      [] pc = "update" -> 4
      [] OTHER -> 5

\* C1: train() runs, for every epoch 1..N and every batch, forward, loss,
\* zero_grad, backward and optimizer step in this order and then adds one to
\* self.step; an optimizer step directly follows the backward pass of its
\* batch; on return there were N * B optimizer steps and self.step grew by
\* N * B (0 when N <= 0).
C1_TrainLoop ==
    trainer.made =>
      /\ IsPrefix(ops, TrainSeq)
      /\ params = nOpt
      /\ pc \in {"forward", "loss", "zero_grad", "backward", "update", "log", "inc"}
           => /\ ops = SubSeq(TrainSeq, 1, OpsDone)
              /\ epoch \in 1..TrainEpochs
              /\ bi < TrainBatches
              /\ step = (epoch - 1) * TrainBatches + bi
      /\ pc \in {"log", "inc"} => nOpt = step + 1
      /\ pc \in {"epoch_head", "batch_next", "forward", "loss", "zero_grad",
                 "backward", "update", "epoch_end", "done"} => nOpt = step
      /\ pc = "done" => /\ nOpt = TrainEpochs * TrainBatches
                        /\ step = TrainEpochs * TrainBatches

C1_Witness ==
    /\ pc = "done"
    /\ trainer.n_epochs = 2
    /\ TrainBatches >= 2
    /\ nOpt = 2 * TrainBatches

\* validations the per-step schedule asks for before step s
Scheduled(s) ==
    IF trainer.validate_every > 0
    THEN Cardinality({k \in 0..(s - 1) : k % trainer.validate_every = 0})
    ELSE 0

\* C2: with dev data given, the Trainer is built (unless the pre-flight check
\* finds the model, the loss or the metrics at fault) and its train() validates
\* once after every epoch and never inside one when validate_every <= 0, and
\* never after an epoch but after each batch whose pre-increment step is a
\* multiple of validate_every when validate_every > 0.
C2_Claim ==
    (cfg.made /\ cfg.dev /\ cfg.dataOk /\ cfg.modelOk /\ cfg.metrics # <<>>) =>
      /\ (pc = "raised" /\ ~trainer.made) =>
           err \in {"TypeError", "MissingArgs", "CheckError", "AssertionError"}
      /\ (trainer.made /\ pc = "batch_next") => nVal.batch = Scheduled(step)
      /\ (trainer.made /\ pc \in {"epoch_head", "done"}) =>
           nVal.epoch = IF trainer.validate_every <= 0 THEN nEpochs ELSE 0

\* the batches a Tester holds, in sequential order
TestBatches ==
    [i \in 1..NumBatches(tself.records, tself.batch_size) |-> i]

\* C3: test() forwards every batch once, in order, applies the metrics only
\* after the last batch, hands every metric the complete predictions and
\* ground truths, and returns a mapping that holds each applied metric's result.
C3_Claim ==
    /\ tpc \in {"metrics", "check_error", "finish"} => output = TestBatches
    /\ (cpc = "done" /\ tcaller = "client") =>
         /\ output = TestBatches
         /\ truths = TestBatches
         /\ \A k \in 1..Len(seen) :
              /\ seen[k].pred = output
              /\ seen[k].truth = truths
              /\ tself.metrics[k] \in DOMAIN eval_results

C5_PreflightCheck ==
    cfg.made =>
      /\ chk <= CheckBatches
      /\ Len(SelectSeq(chkOps, IsForward)) <= CheckBatches
      /\ cfg.check_code_level <= 0 - 1 => chkOps = <<>> /\ lastCall.site # "check"
      /\ pc \in {"chk_next", "chk_forward", "chk_loss", "chk_backward", "chk_err",
                 "chk_zero", "chk_dev", "chk_test", "assign", "constructed"}
           => params = 0 /\ nOpt = 0 /\ step = 0 /\ ops = <<>>
      /\ pc \in {"chk_next", "chk_forward", "chk_dev", "assign", "constructed"}
           => grad = 0
      /\ (pc \in {"chk_dev", "assign", "constructed"} \/ trainer.made)
           => chk = CheckBatches

C5_Witness ==
    /\ pc = "constructed"
    /\ chk = DEFAULT_CHECK_NUM_BATCH
    /\ NumBatches(cfg.records, DEFAULT_CHECK_BATCH_SIZE) > DEFAULT_CHECK_NUM_BATCH
    /\ Len(SelectSeq(chkOps, IsForward)) = DEFAULT_CHECK_NUM_BATCH

\* C6: every forward call gets exactly the batch fields the callable declares;
\* a missing required name is an error and the callable is not invoked; in
\* train() and _check_code a return value that is no dict raises TypeError
\* before any loss, backward or optimizer step of that batch.
C6_SignatureMatching ==
    /\ lastCall.site # "none" =>
         /\ lastCall.args = BatchXFields \cap net.sig.params
         /\ net.sig.required \subseteq lastCall.args
    /\ ~(net.sig.required \subseteq BatchXFields) =>
         /\ lastCall = NoCall
         /\ ops = <<>>
         /\ chkOps = <<>>
    /\ pc \in {"loss", "zero_grad", "backward", "update", "log", "inc",
               "chk_loss", "chk_backward", "chk_err", "chk_zero"} =>
         /\ lastCall.site \in {"train", "check", "tester"}
         /\ lastCall.returns = "dict"
    /\ (lastCall.site \in {"train", "check"} /\ lastCall.returns # "dict") =>
         /\ pc = "raised"
         /\ err = "TypeError"
         /\ ops \in {<<>>, <<"forward">>}
         /\ params = nOpt

C6_Witness ==
    /\ lastCall.site = "train"
    /\ lastCall.returns # "dict"
    /\ lastCall.args = {"words"}
    /\ pc = "raised"
    /\ ops = <<"forward">>

\* C7: a Trainer built without dev data (and without a tester of its own)
\* never calls do_validation, never saves a checkpoint and is not stopped by
\* the missing tester, whatever validate_every is.
C7_Claim ==
    (trainer.made /\ ~cfg.dev /\ ~trainer.dev_data /\ ~self_tester.made) =>
      /\ nVal.batch = 0
      /\ nVal.epoch = 0
      /\ nSaved = 0
      /\ pc = "raised" => err # "AttributeError"

\* C8: Tester(data, model, ...) on a DataSet and a Module succeeds, with
\* predict_func = model.predict when predict is callable and model.forward
\* when there is none, and raises TypeError when predict is not callable or
\* when data or model has the wrong type.
C8_Claim ==
    (tnew.called /\ tnew.attrs = {}) =>
      IF tnew.args.dataOk /\ tnew.args.modelOk
      THEN CASE tnew.args.predict = "callable" ->
                  tnew.result.made /\ tnew.result.predict_func = "predict"
             [] tnew.args.predict = "absent" ->
                  tnew.result.made /\ tnew.result.predict_func = "forward"
             [] OTHER ->
                  ~tnew.result.made /\ tnew.result.err = "TypeError"
      ELSE ~tnew.result.made /\ tnew.result.err = "TypeError"

====
